---- MODULE Spec2Model ----
(***************************************************************************)
(* Model of the AI visualization pipeline of the ERCOT analytics dashboard *)
(* (src/src/langgraph_ai_visualization.py, src/src/app.py):                *)
(*   - the LangGraph workflow of LangGraphAIVisualizer, one action per     *)
(*     node, with the outcomes of the external calls (Bedrock, analytics   *)
(*     store, Grafana, PostgreSQL) chosen nondeterministically;            *)
(*   - the operations that bind a visualization to a user's dashboard      *)
(*     (add_ai_visualization_to_dashboard, _add_to_user_dashboard), one    *)
(*     action per SQL statement so that invocations interleave.            *)
(*                                                                         *)
(* Request texts are sequences of one-character strings.  SQL texts are    *)
(* sequences of lexical atoms (keywords, identifiers, literals, single     *)
(* whitespace characters); Python's substring test becomes a contiguous    *)
(* subsequence test, which agrees with it on texts whose atoms do not      *)
(* contain a searched keyword as a proper part.                            *)
(***************************************************************************)
EXTENDS Integers, Sequences, FiniteSets, TLC

\* ------------------------------------------------------------------ bounds
MaxRuns == 2          \* pipeline runs, one after another
NumBinders == 2       \* concurrent invocations of the binding operations
MaxStoreRows == 12    \* rows the analytics store may hold for a query

\* --------------------------------------------------------- Python values
None == "None"                 \* None in a string-valued field
NoneSeq == <<"<None>">>        \* None in a text- or list-valued field
NoViz == 0                     \* None in visualization_id (SERIAL ids start at 1)

\* bool(x) of an Optional[str]
TruthyStr(x) == x # None /\ x # ""
\* bool(x) of an Optional text or list
TruthySeq(x) == x # NoneSeq /\ x # <<>>

Min(a, b) == IF a < b THEN a ELSE b

\* ------------------------------------------------------- text operations
WhitespaceChars == {" ", "\t", "\n"}

RECURSIVE lstrip(_)
lstrip(s) ==
    IF s # <<>> /\ Head(s) \in WhitespaceChars THEN lstrip(Tail(s)) ELSE s

RECURSIVE rstrip(_)
rstrip(s) ==
    IF s # <<>> /\ s[Len(s)] \in WhitespaceChars
    THEN rstrip(SubSeq(s, 1, Len(s) - 1))
    ELSE s

\* str.strip()
strip(s) == rstrip(lstrip(s))

\* sub in s
Contains(sub, s) ==
    \E i \in 0..(Len(s) - Len(sub)) : SubSeq(s, i + 1, i + Len(sub)) = sub

\* any(word in s for word in words)
AnyIn(words, s) == \E w \in words : Contains(w, s)

UpperLetters == <<"A","B","C","D","E","F","G","H","I","J","K","L","M",
                  "N","O","P","Q","R","S","T","U","V","W","X","Y","Z">>
LowerLetters == <<"a","b","c","d","e","f","g","h","i","j","k","l","m",
                  "n","o","p","q","r","s","t","u","v","w","x","y","z">>

LowerChar(c) ==
    IF \E i \in 1..26 : UpperLetters[i] = c
    THEN LowerLetters[CHOOSE i \in 1..26 : UpperLetters[i] = c]
    ELSE c

\* str.lower() of a request text
lower(s) == [i \in 1..Len(s) |-> LowerChar(s[i])]

\* str.upper() of one SQL atom, for the atoms that spell FROM
UpperAtom(t) == IF t \in {"from", "From", "FROM"} THEN "FROM" ELSE t

\* str.upper() of an SQL text
upper(q) == [i \in 1..Len(q) |-> UpperAtom(q[i])]

\* ---------------------------------------------- keyword and query tables
capacity_keywords ==
    { <<"c", "a", "p", "a", "c", "i", "t", "y">>,
      <<"r", "e", "s", "e", "r", "v", "e">>,
      <<"a", "n", "c", "i", "l", "l", "a", "r", "y">>,
      <<"s", "t", "r", "e", "s", "s">>,
      <<"g", "r", "i", "d", " ", "s", "t", "r", "e", "s", "s">>,
      <<"s", "y", "s", "t", "e", "m", " ", "s", "t", "r", "e", "s", "s">>,
      <<"d", "e", "m", "a", "n", "d">>,
      <<"l", "o", "a", "d">>,
      <<"g", "e", "n", "e", "r", "a", "t", "i", "o", "n">>,
      <<"r", "e", "s", "p", "o", "n", "s", "i", "v", "e">>,
      <<"r", "e", "g", "u", "l", "a", "t", "i", "o", "n">>,
      <<"c", "o", "n", "t", "i", "n", "g", "e", "n", "c", "y">>,
      <<"s", "p", "i", "n", "n", "i", "n", "g">>,
      <<"n", "o", "n", "-", "s", "p", "i", "n">>,
      <<"e", "m", "e", "r", "g", "e", "n", "c", "y">>,
      <<"o", "u", "t", "a", "g", "e">>,
      <<"a", "v", "a", "i", "l", "a", "b", "i", "l", "i", "t", "y">>,
      <<"m", "a", "r", "g", "i", "n">>,
      <<"r", "e", "l", "i", "a", "b", "i", "l", "i", "t", "y">>,
      <<"s", "t", "a", "b", "i", "l", "i", "t", "y">>,
      <<"f", "r", "e", "q", "u", "e", "n", "c", "y", " ", "r", "e", "s", "p", "o", "n", "s", "e">>,
      <<"v", "o", "l", "t">>,
      <<"r", "e", "a", "c", "t", "i", "v", "e">> }

price_keywords ==
    { <<"p", "r", "i", "c", "e">>,
      <<"p", "r", "i", "c", "i", "n", "g">>,
      <<"s", "e", "t", "t", "l", "e", "m", "e", "n", "t">>,
      <<"h", "u", "b">>,
      <<"c", "o", "s", "t">>,
      <<"m", "a", "r", "k", "e", "t">>,
      <<"c", "l", "e", "a", "r", "i", "n", "g">>,
      <<"l", "o", "c", "a", "t", "i", "o", "n", "a", "l", " ", "m", "a", "r", "g", "i", "n", "a", "l">>,
      <<"l", "m", "p">>,
      <<"e", "n", "e", "r", "g", "y", " ", "p", "r", "i", "c", "e">>,
      <<"r", "e", "a", "l", " ", "t", "i", "m", "e">>,
      <<"d", "a", "y", " ", "a", "h", "e", "a", "d">> }

ai_capacity_words ==
    { <<"s", "t", "r", "e", "s", "s">>,
      <<"c", "a", "p", "a", "c", "i", "t", "y">>,
      <<"r", "e", "s", "e", "r", "v", "e">>,
      <<"g", "r", "i", "d">>,
      <<"s", "y", "s", "t", "e", "m">>,
      <<"s", "t", "a", "b", "i", "l", "i", "t", "y">>,
      <<"e", "m", "e", "r", "g", "e", "n", "c", "y">>,
      <<"o", "u", "t", "a", "g", "e">>,
      <<"r", "e", "g", "u", "l", "a", "t", "i", "o", "n">>,
      <<"f", "r", "e", "q", "u", "e", "n", "c", "y">>,
      <<"d", "e", "m", "a", "n", "d">>,
      <<"l", "o", "a", "d">> }

visualization_patterns ==
    << [chart_type |-> "bar", keywords |-> {<<"b", "a", "r", " ", "c", "h", "a", "r", "t">>, <<"b", "a", "r", " ", "g", "r", "a", "p", "h">>, <<"b", "a", "r", "s">>, <<"c", "o", "l", "u", "m", "n", " ", "c", "h", "a", "r", "t">>, <<"h", "i", "s", "t", "o", "g", "r", "a", "m">>}],
       [chart_type |-> "line", keywords |-> {<<"l", "i", "n", "e", " ", "c", "h", "a", "r", "t">>, <<"l", "i", "n", "e", " ", "g", "r", "a", "p", "h">>, <<"t", "i", "m", "e", " ", "s", "e", "r", "i", "e", "s">>, <<"t", "r", "e", "n", "d">>, <<"o", "v", "e", "r", " ", "t", "i", "m", "e">>}],
       [chart_type |-> "area", keywords |-> {<<"a", "r", "e", "a", " ", "c", "h", "a", "r", "t">>, <<"f", "i", "l", "l", "e", "d", " ", "c", "h", "a", "r", "t">>, <<"a", "r", "e", "a", " ", "g", "r", "a", "p", "h">>}],
       [chart_type |-> "scatter", keywords |-> {<<"s", "c", "a", "t", "t", "e", "r", " ", "p", "l", "o", "t">>, <<"s", "c", "a", "t", "t", "e", "r", " ", "c", "h", "a", "r", "t">>, <<"c", "o", "r", "r", "e", "l", "a", "t", "i", "o", "n">>, <<"r", "e", "l", "a", "t", "i", "o", "n", "s", "h", "i", "p">>}],
       [chart_type |-> "pie", keywords |-> {<<"p", "i", "e", " ", "c", "h", "a", "r", "t">>, <<"d", "o", "n", "u", "t">>, <<"d", "i", "s", "t", "r", "i", "b", "u", "t", "i", "o", "n">>, <<"b", "r", "e", "a", "k", "d", "o", "w", "n">>, <<"p", "e", "r", "c", "e", "n", "t", "a", "g", "e">>}],
       [chart_type |-> "gauge", keywords |-> {<<"g", "a", "u", "g", "e">>, <<"m", "e", "t", "e", "r">>, <<"d", "i", "a", "l">>, <<"s", "p", "e", "e", "d", "o", "m", "e", "t", "e", "r">>}],
       [chart_type |-> "table", keywords |-> {<<"t", "a", "b", "l", "e">>, <<"l", "i", "s", "t">>, <<"t", "a", "b", "u", "l", "a", "r">>, <<"d", "a", "t", "a", " ", "t", "a", "b", "l", "e">>}],
       [chart_type |-> "heatmap", keywords |-> {<<"h", "e", "a", "t", "m", "a", "p">>, <<"h", "e", "a", "t", " ", "m", "a", "p">>, <<"i", "n", "t", "e", "n", "s", "i", "t", "y">>, <<"c", "o", "r", "r", "e", "l", "a", "t", "i", "o", "n", " ", "m", "a", "t", "r", "i", "x">>}],
       [chart_type |-> "stat", keywords |-> {<<"s", "t", "a", "t">>, <<"s", "i", "n", "g", "l", "e", " ", "v", "a", "l", "u", "e">>, <<"m", "e", "t", "r", "i", "c">>, <<"n", "u", "m", "b", "e", "r">>, <<"c", "u", "r", "r", "e", "n", "t", " ", "v", "a", "l", "u", "e">>}],
       [chart_type |-> "timeseries", keywords |-> {<<"t", "i", "m", "e", "s", "e", "r", "i", "e", "s">>, <<"t", "i", "m", "e", " ", "s", "e", "r", "i", "e", "s">>, <<"t", "i", "m", "e", "l", "i", "n", "e">>, <<"h", "i", "s", "t", "o", "r", "i", "c", "a", "l">>, <<"o", "v", "e", "r", " ", "t", "i", "m", "e">>}] >>

comparison_words ==
    { <<"c", "o", "m", "p", "a", "r", "e">>,
      <<"v", "s">>,
      <<"v", "e", "r", "s", "u", "s">>,
      <<"a", "g", "a", "i", "n", "s", "t">> }

current_words ==
    { <<"c", "u", "r", "r", "e", "n", "t">>,
      <<"n", "o", "w">>,
      <<"l", "a", "t", "e", "s", "t">>,
      <<"t", "o", "d", "a", "y">> }

trend_words ==
    { <<"t", "r", "e", "n", "d">>,
      <<"c", "h", "a", "n", "g", "e">>,
      <<"e", "v", "o", "l", "u", "t", "i", "o", "n">>,
      <<"h", "i", "s", "t", "o", "r", "y">> }

stress_words ==
    { <<"s", "t", "r", "e", "s", "s">>,
      <<"g", "r", "i", "d", " ", "s", "t", "r", "e", "s", "s">>,
      <<"s", "y", "s", "t", "e", "m", " ", "s", "t", "r", "e", "s", "s">>,
      <<"s", "t", "r", "a", "i", "n">> }

reserve_words ==
    { <<"r", "e", "s", "e", "r", "v", "e">>,
      <<"m", "a", "r", "g", "i", "n">>,
      <<"c", "o", "n", "t", "i", "n", "g", "e", "n", "c", "y">> }

emergency_words ==
    { <<"e", "m", "e", "r", "g", "e", "n", "c", "y">>,
      <<"o", "u", "t", "a", "g", "e">>,
      <<"e", "m", "r">>,
      <<"o", "u", "t">> }

regulation_words ==
    { <<"r", "e", "g", "u", "l", "a", "t", "i", "o", "n">>,
      <<"f", "r", "e", "q", "u", "e", "n", "c", "y">>,
      <<"f", "r", "e", "q">> }

spin_words ==
    { <<"s", "p", "i", "n">>,
      <<"s", "p", "i", "n", "n", "i", "n", "g">>,
      <<"n", "o", "n", "-", "s", "p", "i", "n">> }

demand_words ==
    { <<"d", "e", "m", "a", "n", "d">>,
      <<"c", "u", "r", "v", "e">>,
      <<"o", "p", "e", "r", "a", "t", "i", "n", "g">> }

kw_houston == <<"h", "o", "u", "s", "t", "o", "n">>
kw_north == <<"n", "o", "r", "t", "h">>
kw_south == <<"s", "o", "u", "t", "h">>
kw_west == <<"w", "e", "s", "t">>
fb_houston ==
    [sql_query |-> <<"SELECT", " ", "timestamp", " ", "AS", " ", "time", ",", " ", "hb_houston", " ", "AS", " ", "\"Houston Hub Price\"", " ", "FROM", " ", "ercot_settlement_prices", " ", "WHERE", " ", "$__timeFilter(timestamp)", " ", "ORDER", " ", "BY", " ", "timestamp">>,
     chart_type |-> "timeseries",
     title |-> "Houston Hub Settlement Prices"]

fb_north ==
    [sql_query |-> <<"SELECT", " ", "timestamp", " ", "AS", " ", "time", ",", " ", "hb_north", " ", "AS", " ", "\"North Hub Price\"", " ", "FROM", " ", "ercot_settlement_prices", " ", "WHERE", " ", "$__timeFilter(timestamp)", " ", "ORDER", " ", "BY", " ", "timestamp">>,
     chart_type |-> "timeseries",
     title |-> "North Hub Settlement Prices"]

fb_south ==
    [sql_query |-> <<"SELECT", " ", "timestamp", " ", "AS", " ", "time", ",", " ", "hb_south", " ", "AS", " ", "\"South Hub Price\"", " ", "FROM", " ", "ercot_settlement_prices", " ", "WHERE", " ", "$__timeFilter(timestamp)", " ", "ORDER", " ", "BY", " ", "timestamp">>,
     chart_type |-> "timeseries",
     title |-> "South Hub Settlement Prices"]

fb_west ==
    [sql_query |-> <<"SELECT", " ", "timestamp", " ", "AS", " ", "time", ",", " ", "hb_west", " ", "AS", " ", "\"West Hub Price\"", " ", "FROM", " ", "ercot_settlement_prices", " ", "WHERE", " ", "$__timeFilter(timestamp)", " ", "ORDER", " ", "BY", " ", "timestamp">>,
     chart_type |-> "timeseries",
     title |-> "West Hub Settlement Prices"]

fb_prices ==
    [sql_query |-> <<"SELECT", " ", "timestamp", " ", "AS", " ", "time", ",", " ", "hb_houston", " ", "AS", " ", "\"Houston Hub\"", ",", " ", "hb_north", " ", "AS", " ", "\"North Hub\"", ",", " ", "hb_south", " ", "AS", " ", "\"South Hub\"", ",", " ", "hb_west", " ", "AS", " ", "\"West Hub\"", " ", "FROM", " ", "ercot_settlement_prices", " ", "WHERE", " ", "$__timeFilter(timestamp)", " ", "ORDER", " ", "BY", " ", "timestamp">>,
     chart_type |-> "timeseries",
     title |-> "ERCOT Settlement Point Prices"]

fb_stress ==
    [sql_query |-> <<"SELECT", " ", "timestamp", " ", "AS", " ", "time", ",", " ", "value", " ", "AS", " ", "\"Available Capacity to Increase (MW)\"", " ", "FROM", " ", "ercot_capacity_monitor", " ", "WHERE", " ", "category", " ", "=", " ", "'System Available Capacity (MW)'", " ", "AND", " ", "subcategory", " ", "=", " ", "'Capacity available to increase Generation Resource Base Points in the next 5 minutes in SCED (HDL)'", " ", "AND", " ", "$__timeFilter(timestamp)", " ", "ORDER", " ", "BY", " ", "timestamp">>,
     chart_type |-> "timeseries",
     title |-> "Grid Stress - Available Generation Capacity"]

fb_reserve ==
    [sql_query |-> <<"SELECT", " ", "timestamp", " ", "AS", " ", "time", ",", " ", "value", " ", "AS", " ", "\"Responsive Reserve (MW)\"", " ", "FROM", " ", "ercot_capacity_monitor", " ", "WHERE", " ", "category", " ", "=", " ", "'Responsive Reserve Capacity (MW)'", " ", "AND", " ", "subcategory", " ", "=", " ", "'Generation Resources'", " ", "AND", " ", "$__timeFilter(timestamp)", " ", "ORDER", " ", "BY", " ", "timestamp">>,
     chart_type |-> "timeseries",
     title |-> "Reserve Margin - Generation Resources"]

fb_emergency ==
    [sql_query |-> <<"SELECT", " ", "timestamp", " ", "AS", " ", "time", ",", " ", "value", " ", "AS", " ", "\"Emergency/Outage Capacity (MW)\"", " ", "FROM", " ", "ercot_capacity_monitor", " ", "WHERE", " ", "category", " ", "=", " ", "'EMR, OUT, and OUTL Capacity (MW)'", " ", "AND", " ", "subcategory", " ", "=", " ", "'Aggregate telemetered HSL capacity for Resources with a telemetered Resource Status of EMR'", " ", "AND", " ", "$__timeFilter(timestamp)", " ", "ORDER", " ", "BY", " ", "timestamp">>,
     chart_type |-> "timeseries",
     title |-> "Emergency and Outage Conditions"]

fb_regulation ==
    [sql_query |-> <<"SELECT", " ", "timestamp", " ", "AS", " ", "time", ",", " ", "value", " ", "AS", " ", "\"Regulation Up (MW)\"", " ", "FROM", " ", "ercot_capacity_monitor", " ", "WHERE", " ", "category", " ", "=", " ", "'Regulation Capacity (MW)'", " ", "AND", " ", "subcategory", " ", "=", " ", "'Deployed Reg-Up'", " ", "AND", " ", "$__timeFilter(timestamp)", " ", "ORDER", " ", "BY", " ", "timestamp">>,
     chart_type |-> "timeseries",
     title |-> "Frequency Regulation - Deployed Up"]

fb_spin ==
    [sql_query |-> <<"SELECT", " ", "timestamp", " ", "AS", " ", "time", ",", " ", "value", " ", "AS", " ", "\"Non-Spin Reserve (MW)\"", " ", "FROM", " ", "ercot_capacity_monitor", " ", "WHERE", " ", "category", " ", "=", " ", "'Non-Spin Reserve Capacity (MW)'", " ", "AND", " ", "subcategory", " ", "=", " ", "'On-Line Generation Resources with Output Schedules'", " ", "AND", " ", "$__timeFilter(timestamp)", " ", "ORDER", " ", "BY", " ", "timestamp">>,
     chart_type |-> "timeseries",
     title |-> "Non-Spinning Reserve Capacity"]

fb_demand ==
    [sql_query |-> <<"SELECT", " ", "timestamp", " ", "AS", " ", "time", ",", " ", "value", " ", "AS", " ", "\"Operating Reserve (MW)\"", " ", "FROM", " ", "ercot_capacity_monitor", " ", "WHERE", " ", "category", " ", "=", " ", "'Real-Time Operating Reserve Demand Curve Capacity (MW)'", " ", "AND", " ", "subcategory", " ", "=", " ", "'Real-Time On-Line reserve capacity'", " ", "AND", " ", "$__timeFilter(timestamp)", " ", "ORDER", " ", "BY", " ", "timestamp">>,
     chart_type |-> "timeseries",
     title |-> "Real-Time Operating Reserve"]

fb_capacity ==
    [sql_query |-> <<"SELECT", " ", "timestamp", " ", "AS", " ", "time", ",", " ", "value", " ", "AS", " ", "\"Available Increase Capacity (MW)\"", " ", "FROM", " ", "ercot_capacity_monitor", " ", "WHERE", " ", "category", " ", "=", " ", "'System Available Capacity (MW)'", " ", "AND", " ", "subcategory", " ", "=", " ", "'Capacity available to increase Generation Resource Base Points in the next 5 minutes in SCED (HDL)'", " ", "AND", " ", "$__timeFilter(timestamp)", " ", "ORDER", " ", "BY", " ", "timestamp">>,
     chart_type |-> "timeseries",
     title |-> "System Available Capacity Overview"]

fb_final ==
    [sql_query |-> <<"SELECT", " ", "timestamp", " ", "AS", " ", "time", ",", " ", "value", " ", "AS", " ", "\"Value\"", " ", "FROM", " ", "ercot_capacity_monitor", " ", "WHERE", " ", "$__timeFilter(timestamp)", " ", "ORDER", " ", "BY", " ", "timestamp", " ", "LIMIT", " ", "1000">>,
     chart_type |-> "timeseries",
     title |-> "ERCOT Data Overview"]

q_good == <<"SELECT", " ", "timestamp", " ", "AS", " ", "time", ",", " ", "hb_west", " ", "AS", " ", "\"West\"", " ", "FROM", " ", "ercot_settlement_prices", " ", "WHERE", " ", "$__timeFilter(timestamp)", " ", "ORDER", " ", "BY", " ", "timestamp">>
q_now == <<"SELECT", " ", "timestamp", " ", "AS", " ", "time", ",", " ", "hb_west", " ", "FROM", " ", "ercot_settlement_prices", " ", "WHERE", " ", "timestamp", " ", ">=", " ", "NOW()", " ", "-", " ", "INTERVAL", " ", "'24 hours'", " ", "ORDER", " ", "BY", " ", "timestamp">>
q_noalias == <<"SELECT", " ", "timestamp", ",", " ", "hb_west", " ", "FROM", " ", "ercot_settlement_prices", " ", "WHERE", " ", "$__timeFilter(timestamp)">>
q_ws == <<"\n", " ", "SELECT", " ", "timestamp", " ", "AS", " ", "time", ",", "\n", "\t", "hb_west", " ", " ", "FROM", " ", "ercot_settlement_prices", " ", "WHERE", " ", "$__timeFilter(timestamp)", " ">>
q_drop == <<"DROP", " ", "TABLE", " ", "x">>
q_now_tail == <<"SELECT", " ", "timestamp", " ", "AS", " ", "time", ",", " ", "hb_west", " ", "FROM", " ", "ercot_settlement_prices", " ", "WHERE", " ", "timestamp", " ", ">=", " ", "NOW()", " ", "-", " ", "INTERVAL", " ", "'24 hours'">>
q_delete == <<"SELECT", " ", "timestamp", " ", "AS", " ", "time", " ", "FROM", " ", "ercot_settlement_prices", " ", "WHERE", " ", "$__timeFilter(timestamp)", ")", " ", "AS", " ", "p", ";", " ", "DELETE", " ", "FROM", " ", "ercot_settlement_prices", ";", " ", "SELECT", " ", "*", " ", "FROM", " ", "(", "SELECT", " ", "1">>
q_blank == <<" ", " ">>
q_now_category == <<"SELECT", " ", "timestamp", " ", "AS", " ", "time", ",", " ", "value", " ", "FROM", " ", "ercot_capacity_monitor", " ", "WHERE", " ", "category", " ", "=", " ", "'Regulation Capacity (MW)'", " ", "AND", " ", "timestamp", " ", ">=", " ", "NOW()", " ", "-", " ", "INTERVAL", " ", "'24 hours'", " ", "LIMIT", " ", "1000">>
\* the atom that stands for the markdown code-fence marker (three backticks)
CodeFence == "<code-fence>"
q_fenced == <<CodeFence, "sql", "\n", "SELECT", " ", "timestamp", " ", "AS", " ", "time", ",", " ", "hb_west", " ", "FROM", " ", "ercot_settlement_prices", " ", "WHERE", " ", "$__timeFilter(timestamp)", ";", "\n", CodeFence>>
q_terminated == <<"SELECT", " ", "timestamp", " ", "AS", " ", "time", ",", " ", "hb_west", " ", "FROM", " ", "ercot_settlement_prices", " ", "WHERE", " ", "$__timeFilter(timestamp)", ";">>

\* ------------------------------------------------------------- data sources
SettlementPrices == "ercot_settlement_prices"
CapacityMonitor == "ercot_capacity_monitor"

\* table names of _initialize_data_sources, in order
data_sources == <<SettlementPrices, CapacityMonitor>>

\* next(ds for ds in sources if ds['table_name'] == name) finds an entry
HasSource(sources, name) == \E i \in 1..Len(sources) : sources[i] = name

\* ------------------------------------------------ visualization type rules
RECURSIVE FirstPattern(_, _)
FirstPattern(i, request_lower) ==
    IF i > Len(visualization_patterns) THEN None
    ELSE IF AnyIn(visualization_patterns[i].keywords, request_lower)
         THEN visualization_patterns[i].chart_type
         ELSE FirstPattern(i + 1, request_lower)

\* the detected_type computed by _detect_visualization_type_node
detected_type(request_text) ==
    LET request_lower == lower(request_text)
        explicit == FirstPattern(1, request_lower)
    IN  IF explicit # None THEN explicit
        ELSE IF AnyIn(comparison_words, request_lower) THEN "bar"
        ELSE IF AnyIn(current_words, request_lower) THEN "stat"
        ELSE "timeseries"

\* _ai_analyze_data_source: a table name, or None when next() raises
ai_analyze_data_source(request_text, available_sources) ==
    LET wanted == IF AnyIn(ai_capacity_words, lower(request_text))
                  THEN CapacityMonitor ELSE SettlementPrices
    IN  IF HasSource(available_sources, wanted) THEN wanted ELSE None

\* the table chosen by _analyze_data_sources_node, or None when next() raises
select_data_source(request_text, available_sources) ==
    LET request_lower == lower(request_text)
        pick(name) == IF HasSource(available_sources, name) THEN name ELSE None
    IN  IF AnyIn(capacity_keywords, request_lower) THEN pick(CapacityMonitor)
        ELSE IF AnyIn(price_keywords, request_lower) THEN pick(SettlementPrices)
        ELSE LET selected_source ==
                     ai_analyze_data_source(request_lower, available_sources)
             IN  IF selected_source # None THEN selected_source
                 ELSE pick(CapacityMonitor)

\* a rule-based generator that hands on the chart type detected from the text
generate_fallback_query_detected(request_text, table_name) ==
    [ sql_query |-> fb_final.sql_query,
      chart_type |-> detected_type(request_text),
      title |-> "ERCOT Data Overview" ]

\* a rule-based generator whose template filters on a relative time
generate_fallback_query_relative(request_text, table_name) ==
    [sql_query |-> q_now_tail, chart_type |-> "timeseries", title |-> "ERCOT Data Overview"]

\* _generate_fallback_query
generate_fallback_query(request_text, table_name) ==
    LET request_lower == lower(request_text) IN
    IF table_name = SettlementPrices THEN
        IF Contains(kw_houston, request_lower) THEN fb_houston
        ELSE IF Contains(kw_north, request_lower) THEN fb_north
        ELSE IF Contains(kw_south, request_lower) THEN fb_south
        ELSE IF Contains(kw_west, request_lower) THEN fb_west
        ELSE fb_prices
    ELSE IF table_name = CapacityMonitor THEN
        IF AnyIn(stress_words, request_lower) THEN fb_stress
        ELSE IF AnyIn(reserve_words, request_lower) THEN fb_reserve
        ELSE IF AnyIn(emergency_words, request_lower) THEN fb_emergency
        ELSE IF AnyIn(regulation_words, request_lower) THEN fb_regulation
        ELSE IF AnyIn(spin_words, request_lower) THEN fb_spin
        ELSE IF AnyIn(demand_words, request_lower) THEN fb_demand
        ELSE fb_capacity
    ELSE fb_final

\* ------------------------------------------------------------ SQL sanitizer
TimeAlias == <<"timestamp", " ", "AS", " ", "time">>
TimeFilter == "$__timeFilter(timestamp)"
NowInterval == <<"NOW()", " ", "-", " ", "INTERVAL">>
PreviewInterval ==
    <<"timestamp", " ", ">=", " ", "NOW()", " ", "-", " ", "INTERVAL", " ", "'24 hours'">>

\* re.sub(r'\s+', ' ', s)
RECURSIVE collapse_whitespace(_)
collapse_whitespace(s) ==
    IF s = <<>> THEN <<>>
    ELSE IF Head(s) \in WhitespaceChars
         THEN <<" ">> \o collapse_whitespace(lstrip(s))
         ELSE <<Head(s)>> \o collapse_whitespace(Tail(s))

\* positions of an atom in a text
Positions(atom, s) == {i \in 1..Len(s) : s[i] = atom}

SetMin(S) == CHOOSE x \in S : \A y \in S : x <= y
SetMax(S) == CHOOSE x \in S : \A y \in S : x >= y

\* re.sub(r'WHERE.*NOW\(\).*?(?=ORDER|$)', 'WHERE $__timeFilter(timestamp) ', s)
\* on a text without newlines: the leftmost WHERE that has a NOW() after it,
\* greedily up to the last NOW(), then lazily up to the next ORDER or the end;
\* no NOW() is left after the match, so there is no second match.
rewrite_time_filter(s) ==
    LET nows == Positions("NOW()", s)
        wheres == {w \in Positions("WHERE", s) : \E n \in nows : n > w}
    IN  IF wheres = {} THEN s
        ELSE LET w == SetMin(wheres)
                 n == SetMax(nows)
                 orders == {o \in Positions("ORDER", s) : o > n}
                 e == IF orders = {} THEN Len(s) + 1 ELSE SetMin(orders)
             IN  SubSeq(s, 1, w - 1)
                 \o <<"WHERE", " ", TimeFilter, " ">>
                 \o SubSeq(s, e, Len(s))

\* _clean_sql_query
clean_sql_query(sql_query) ==
    IF ~TruthySeq(sql_query) THEN <<>>
    ELSE LET cleaned == collapse_whitespace(strip(sql_query))
         IN  IF Contains(NowInterval, cleaned)
             THEN rewrite_time_filter(cleaned)
             ELSE cleaned

MissingAlias == "Missing 'timestamp AS time' requirement"
MissingFilter == "Missing '$__timeFilter(timestamp)' requirement"
MissingFrom == "Missing FROM clause"

\* a gate that only looks for the FROM clause
validate_sql_components_from_only(sql_query) ==
    LET errors ==
            (IF ~Contains(<<"FROM">>, upper(sql_query)) THEN <<MissingFrom>> ELSE <<>>)
    IN  [valid |-> Len(errors) = 0, errors |-> errors]

\* _validate_sql_components
validate_sql_components(sql_query) ==
    LET errors ==
            (IF ~Contains(TimeAlias, sql_query) THEN <<MissingAlias>> ELSE <<>>)
         \o (IF ~Contains(<<TimeFilter>>, sql_query) THEN <<MissingFilter>> ELSE <<>>)
         \o (IF ~Contains(<<"FROM">>, upper(sql_query)) THEN <<MissingFrom>> ELSE <<>>)
    IN  [valid |-> Len(errors) = 0, errors |-> errors]

\* ------------------------------------------------------------------ preview
PreviewLimit == 5            \* LIMIT 5 of _preview_data_node
DefaultPreviewLimit == 10    \* limit: int = 10 of _get_data_preview

\* f"SELECT * FROM ({cleaned_sql_query}) AS preview LIMIT 5"
preview_query_of(cleaned_sql_query) ==
    <<"SELECT", " ", "*", " ", "FROM", " ", "(">> \o cleaned_sql_query
    \o <<")", " ", "AS", " ", "preview", " ", "LIMIT", " ", ToString(PreviewLimit)>>

\* str.replace('$__timeFilter(timestamp)', "timestamp >= NOW() - INTERVAL '24 hours'")
RECURSIVE replace_time_filter(_)
replace_time_filter(q) ==
    IF q = <<>> THEN <<>>
    ELSE IF Head(q) = TimeFilter
         THEN PreviewInterval \o replace_time_filter(Tail(q))
         ELSE <<Head(q)>> \o replace_time_filter(Tail(q))

\* the number a LIMIT literal of the model denotes
LimitLiterals == {PreviewLimit, DefaultPreviewLimit, 1000}
LimitValue(literal) == CHOOSE n \in LimitLiterals : ToString(n) = literal

\* cursor.execute(statement); cursor.fetchall(): the store has `matching`
\* rows for the statement, and a trailing LIMIT n keeps the first n of them
fetchall(statement, matching) ==
    LET n == Len(statement)
        rows == IF n >= 3 /\ statement[n - 2] = "LIMIT"
                THEN Min(matching, LimitValue(statement[n]))
                ELSE matching
    IN  [i \in 1..rows |-> "row"]

\* _execute_preview_query: None when the connection or the statement fails,
\* else the rows of the statement with the placeholder replaced
execute_preview_query(query, db_error, matching) ==
    IF db_error THEN NoneSeq
    ELSE fetchall(replace_time_filter(query), matching)

\* AIVisualizationProcessor._get_data_preview: [] for an empty query and when
\* the connection or the statement fails; LIMIT 10 is appended only to a
\* statement that does not contain LIMIT
get_data_preview(sql_query, db_error, matching) ==
    IF sql_query = <<>> \/ db_error THEN <<>>
    ELSE LET replaced == replace_time_filter(sql_query)
             preview_query ==
                 IF ~Contains(<<"LIMIT">>, upper(replaced))
                 THEN replaced \o <<" ", "LIMIT", " ", ToString(DefaultPreviewLimit)>>
                 ELSE replaced
         IN  fetchall(preview_query, matching)

\* ------------------------------------------------------------ panel config
\* a field configuration or an options block is modelled by the helper that
\* builds it; the timeseries field configuration also by the two settings
\* _get_area_field_config changes
get_timeseries_field_config ==
    [helper |-> "_get_timeseries_field_config", fillOpacity |-> 0, gradientMode |-> "none"]

\* _get_area_field_config: the timeseries configuration, filled
get_area_field_config ==
    [get_timeseries_field_config EXCEPT !.fillOpacity = 30, !.gradientMode = "opacity"]

base_config ==
    [ type |-> "timeseries", format |-> "time_series",
      fieldConfig |-> get_timeseries_field_config,
      options |-> [helper |-> "_get_timeseries_options"] ]

\* a lookup that gives every tag the timeseries panel
get_panel_config_for_type_base_only(chart_type) == base_config

\* _get_panel_config_for_type
get_panel_config_for_type(chart_type) ==
    IF chart_type = "bar"
    THEN [ type |-> "barchart", format |-> "time_series",
           fieldConfig |-> [helper |-> "_get_bar_field_config"],
           options |-> [helper |-> "_get_bar_options"] ]
    ELSE IF chart_type = "stat"
    THEN [ type |-> "stat", format |-> "time_series",
           fieldConfig |-> [helper |-> "_get_stat_field_config"],
           options |-> [helper |-> "_get_stat_options"] ]
    ELSE IF chart_type = "gauge"
    THEN [ type |-> "gauge", format |-> "time_series",
           fieldConfig |-> [helper |-> "_get_gauge_field_config"],
           options |-> [helper |-> "_get_gauge_options"] ]
    ELSE IF chart_type = "table"
    THEN [ type |-> "table", format |-> "table",
           fieldConfig |-> [helper |-> "_get_table_field_config"],
           options |-> [helper |-> "_get_table_options"] ]
    ELSE IF chart_type = "area"
    THEN [base_config EXCEPT !.fieldConfig = get_area_field_config]
    ELSE base_config

\* ------------------------------------------------------------------- inputs
\* the caller of a run; callers that differ are in BindKeys
Users == {1}

\* request texts: "", " ab ", "Hub", "grid now", "load bars"
RequestTexts ==
    { <<>>,
      <<" ", "a", "b", " ">>,
      <<"H", "u", "b">>,
      <<"g", "r", "i", "d", " ", "n", "o", "w">>,
      <<"l", "o", "a", "d", " ", "b", "a", "r", "s">> }

\* request texts that reach each rule of the resolver and of the rule-based
\* generator: "houston", "north hub", "south", "west", "settlement", "grid stress", "reserve", "outage",
\* "frequency", "non-spin", "demand", "houston grid", "lmp reserve", "locational marginal", "STRESS price"
RuleTexts ==
    RequestTexts \cup
    { <<"h", "o", "u", "s", "t", "o", "n">>,
      <<"n", "o", "r", "t", "h", " ", "h", "u", "b">>,
      <<"s", "o", "u", "t", "h">>,
      <<"w", "e", "s", "t">>,
      <<"s", "e", "t", "t", "l", "e", "m", "e", "n", "t">>,
      <<"g", "r", "i", "d", " ", "s", "t", "r", "e", "s", "s">>,
      <<"r", "e", "s", "e", "r", "v", "e">>,
      <<"o", "u", "t", "a", "g", "e">>,
      <<"f", "r", "e", "q", "u", "e", "n", "c", "y">>,
      <<"n", "o", "n", "-", "s", "p", "i", "n">>,
      <<"d", "e", "m", "a", "n", "d">>,
      <<"h", "o", "u", "s", "t", "o", "n", " ", "g", "r", "i", "d">>,
      <<"l", "m", "p", " ", "r", "e", "s", "e", "r", "v", "e">>,
      <<"l", "o", "c", "a", "t", "i", "o", "n", "a", "l", " ", "m", "a", "r", "g", "i", "n", "a", "l">>,
      <<"S", "T", "R", "E", "S", "S", " ", "p", "r", "i", "c", "e">> }

\* what _call_bedrock_ai returns (q_now, q_now_tail: a relative-time filter
\* with and without ORDER BY; q_delete: a text that closes the preview's
\* subquery, runs a DELETE and opens a new subquery; q_fenced: a query inside
\* a markdown code fence; q_terminated: a query that ends with ';';
\* q_now_category: a relative-time filter next to a category predicate and
\* before a LIMIT clause):
\*   "error"     None, after an exception (transport, body or content not JSON)
\*   "falsy"     a JSON value that is false in Python (null, [], {}, 0, "")
\*   "nonobject" a true JSON value that is not an object (list, string, number)
\*   "dict"      a JSON object; an absent key is None / NoneSeq
BedrockResults ==
    { [kind |-> k, sql_query |-> NoneSeq, chart_type |-> None, title |-> None] :
          k \in {"error", "falsy", "nonobject", "dict"} }
    \cup
    { [kind |-> "dict", sql_query |-> q, chart_type |-> None, title |-> None] :
          q \in {q_good, q_now, q_now_tail, q_noalias, q_drop, q_delete, q_blank,
                 q_fenced, q_terminated, q_now_category} }
    \cup
    { [kind |-> "dict", sql_query |-> q, chart_type |-> "bar", title |-> "LLM Chart"] :
          q \in {q_ws} }

\* chart-type tags: those of the lookup, the detected types it has no entry
\* for, and a tag nothing knows
ChartTags ==
    { "line", "timeseries", "bar", "stat", "gauge", "table", "area",
      "pie", "scatter", "heatmap", "sankey" }

\* answers of the LLM with a good query and each chart-type tag
ChartResponses ==
    { [kind |-> "dict", sql_query |-> q_good, chart_type |-> t, title |-> "LLM Chart"] :
          t \in ChartTags }
NoResponse == [kind |-> None, sql_query |-> NoneSeq, chart_type |-> None, title |-> None]

\* rows the analytics store yields for the inner query of a preview
PreviewMatches == {0, MaxStoreRows}

\* what session.post does in _deploy_grafana_node: raise (timeout, transport
\* error, body without 'uid'), or answer with a status code and a uid
\* (a uid of "" stands for every uid that is false in Python)
GrafanaOutcomes ==
    { [kind |-> "exception", status_code |-> 0, uid |-> None],
      [kind |-> "response", status_code |-> 500, uid |-> None],
      [kind |-> "response", status_code |-> 200, uid |-> ""],
      [kind |-> "response", status_code |-> 200, uid |-> "fresh"] }

\* ---------------------------------------------------------------- variables
VARIABLES
    pc,                      \* position of process_visualization_request
    state,                   \* the AIVisualizationState of the current run
    obs,                     \* what the current run did (history)
    result,                  \* the dict process_visualization_request returned
    runs,                    \* number of runs started
    ai_visualizations,       \* table ai_visualizations, in id order
    user_dashboard_settings, \* table user_dashboard_settings
    binder,                  \* invocations of the binding operations
    legacy                   \* the request in AIVisualizationProcessor

vars == <<pc, state, obs, result, runs, ai_visualizations,
          user_dashboard_settings, binder, legacy>>

NoConfig ==
    [ title |-> None, type |-> None, format |-> None, rawSql |-> NoneSeq,
      fieldConfig |-> [helper |-> None], options |-> [helper |-> None] ]

\* initial_state of process_visualization_request
initial_state(user_id, request_text) ==
    [ user_id |-> user_id,
      request_text |-> request_text,
      visualization_type |-> "chart",
      available_data_sources |-> <<>>,
      selected_data_source |-> None,
      raw_sql_query |-> NoneSeq,
      cleaned_sql_query |-> NoneSeq,
      chart_type |-> None,
      chart_title |-> None,
      detected_visualization_type |-> None,
      data_preview |-> NoneSeq,
      dashboard_config |-> NoConfig,
      dashboard_uid |-> None,
      errors |-> <<>>,
      status |-> "processing",
      visualization_id |-> NoViz,
      iframe_url |-> NoneSeq ]

NoObs ==
    [ trace |-> <<>>,            \* nodes executed, in order
      posts |-> 0,               \* dashboard-creation POSTs issued
      bedrock_calls |-> 0,       \* calls of _call_bedrock_ai
      bedrock_response |-> NoResponse,
      fallback_calls |-> 0,      \* calls of _generate_fallback_query
      accepted |-> FALSE,        \* validate_query accepted the cleaned query
      accepted_sql |-> NoneSeq,  \* the cleaned query validate_query accepted
      preview_sql |-> NoneSeq,   \* the statement _execute_preview_query executed
      preview_rows |-> 0,        \* rows preview_data got back
      post_outcome |-> None ]    \* how the dashboard-creation POST ended

NoResult ==
    [success |-> FALSE, errors |-> <<>>, visualization_id |-> NoViz,
     dashboard_uid |-> None, sql_query |-> NoneSeq]

\* the uid Grafana gives the dashboard created by run n
FreshUid(n) == ToString(n)

\* f"{grafana_external_url}/d-solo/{uid}?orgId=1&panelId=1&refresh=30s&kiosk"
iframe_url_of(uid) == <<"/d-solo/", uid, "?orgId=1&panelId=1&refresh=30s&kiosk">>

\* f"ai_viz_{viz_id}"
panel_id_of(viz_id) == <<"ai_viz_", ToString(viz_id)>>

\* -------------------------------------------------------- conditional edges
should_validate_query(s) ==
    IF s.status = "failed" \/ ~TruthySeq(s.raw_sql_query) THEN "error" ELSE "validate"

should_preview_data(s) ==
    IF s.status = "failed" \/ ~TruthySeq(s.cleaned_sql_query) THEN "error" ELSE "preview"

\* should_build_dashboard with the checks left out
should_build_dashboard_unchecked(s) == "build"

should_build_dashboard(s) ==
    IF s.status = "failed" \/ ~TruthySeq(s.data_preview) THEN "error" ELSE "build"

\* should_store_results without the test of dashboard_uid
should_store_results_status_only(s) ==
    IF s.status = "failed" THEN "error" ELSE "store"

should_store_results(s) ==
    IF s.status = "failed" \/ ~TruthyStr(s.dashboard_uid) THEN "error" ELSE "store"

\* the edges of a workflow that tries deploy_grafana again after a failure
next_node_retry(node, s) ==
    CASE node = "START" -> "parse_request"
      [] node = "parse_request" -> "detect_visualization_type"
      [] node = "detect_visualization_type" -> "analyze_data_sources"
      [] node = "analyze_data_sources" -> "generate_query"
      [] node = "generate_query" ->
            IF should_validate_query(s) = "validate" THEN "validate_query" ELSE "handle_error"
      [] node = "validate_query" ->
            IF should_preview_data(s) = "preview" THEN "preview_data" ELSE "handle_error"
      [] node = "preview_data" ->
            IF should_build_dashboard(s) = "build" THEN "build_dashboard" ELSE "handle_error"
      [] node = "build_dashboard" -> "deploy_grafana"
      [] node = "deploy_grafana" ->
            IF should_store_results(s) = "store" THEN "store_results" ELSE "deploy_grafana"
      [] node = "store_results" -> "END"
      [] node = "handle_error" -> "END"

\* the edges of _build_workflow: the node that runs after `node` left state s
next_node(node, s) ==
    CASE node = "START" -> "parse_request"
      [] node = "parse_request" -> "detect_visualization_type"
      [] node = "detect_visualization_type" -> "analyze_data_sources"
      [] node = "analyze_data_sources" -> "generate_query"
      [] node = "generate_query" ->
            IF should_validate_query(s) = "validate" THEN "validate_query" ELSE "handle_error"
      [] node = "validate_query" ->
            IF should_preview_data(s) = "preview" THEN "preview_data" ELSE "handle_error"
      [] node = "preview_data" ->
            IF should_build_dashboard(s) = "build" THEN "build_dashboard" ELSE "handle_error"
      [] node = "build_dashboard" -> "deploy_grafana"
      [] node = "deploy_grafana" ->
            IF should_store_results(s) = "store" THEN "store_results" ELSE "handle_error"
      [] node = "store_results" -> "END"
      [] node = "handle_error" -> "END"

\* a failure that sets the status and records no error
fail_silent(s, msg) == [s EXCEPT !.status = "failed"]

\* state['errors'].append(msg); state['status'] = "failed"
fail(s, msg) == [s EXCEPT !.errors = Append(@, msg), !.status = "failed"]

\* a node ran and left state s: record it and follow the edge
Ran(node, s) ==
    /\ state' = s
    /\ pc' = next_node(node, s)

Executed(node) == [obs EXCEPT !.trace = Append(@, node)]

\* `node` has executed in the current run
InTrace(node) == \E i \in 1..Len(obs.trace) : obs.trace[i] = node

\* -------------------------------------------------- database row operations
\* an INSERT INTO ai_visualizations that stores nothing
insert_visualization_lost(rows, user_id, status, errors, dashboard_uid, run) == rows

\* INSERT INTO ai_visualizations ... RETURNING id, committed
insert_visualization(rows, user_id, status, errors, dashboard_uid, run) ==
    Append(rows, [ id |-> Len(rows) + 1,
                   user_id |-> user_id,
                   status |-> status,
                   errors |-> errors,
                   dashboard_uid |-> dashboard_uid,
                   run |-> run ])

\* SELECT COALESCE(MAX(panel_order), 0) + 1 FROM user_dashboard_settings
\* WHERE user_id = %s
next_panel_order(rows, user_id) ==
    LET orders == {r.panel_order : r \in {x \in rows : x.user_id = user_id}}
    IN  IF orders = {} THEN 1 ELSE SetMax(orders \cup {0}) + 1

\* a table without the UNIQUE(user_id, panel_id) constraint
unique_violation_dropped(rows, user_id, panel_id) == FALSE

\* UNIQUE(user_id, panel_id) of user_dashboard_settings rejects the row
unique_violation(rows, user_id, panel_id) ==
    \E r \in rows : r.user_id = user_id /\ r.panel_id = panel_id

\* the row both binding operations insert
binding_row(rows, user_id, viz_id, panel_name, next_order, iframe_src, dashboard_uid) ==
    [ id |-> Cardinality(rows) + 1,
      user_id |-> user_id,
      panel_id |-> panel_id_of(viz_id),
      panel_name |-> panel_name,
      panel_order |-> next_order,
      iframe_src |-> iframe_src,
      ai_visualization_id |-> viz_id,
      dashboard_uid |-> dashboard_uid ]

\* ------------------------------------------------------- workflow: the run
\* process_visualization_request is called: initial_state, then ainvoke
Start(user_id, request_text) ==
    /\ pc \in {"idle", "returned"}
    /\ runs < MaxRuns
    /\ runs' = runs + 1
    /\ state' = initial_state(user_id, request_text)
    /\ obs' = NoObs
    /\ result' = NoResult
    /\ pc' = next_node("START", state')
    /\ UNCHANGED <<ai_visualizations, user_dashboard_settings, binder, legacy>>

\* _parse_request_node
ParseRequest ==
    /\ pc = "parse_request"
    /\ LET text == state.request_text IN
       IF text = <<>> \/ Len(strip(text)) < 3
       THEN Ran("parse_request", fail(state, "Request text is too short or empty"))
       ELSE Ran("parse_request", [state EXCEPT !.available_data_sources = data_sources])
    /\ obs' = Executed("parse_request")
    /\ UNCHANGED <<result, runs, ai_visualizations, user_dashboard_settings, binder, legacy>>

\* _detect_visualization_type_node
DetectVisualizationType ==
    /\ pc = "detect_visualization_type"
    /\ LET detected == detected_type(state.request_text) IN
       Ran("detect_visualization_type",
           [state EXCEPT !.detected_visualization_type = detected,
                         !.chart_type = detected])
    /\ obs' = Executed("detect_visualization_type")
    /\ UNCHANGED <<result, runs, ai_visualizations, user_dashboard_settings, binder, legacy>>

\* _analyze_data_sources_node; next() on an empty available_data_sources
\* raises StopIteration, which the node's except clause turns into a failure
AnalyzeDataSources ==
    /\ pc = "analyze_data_sources"
    /\ LET selected == select_data_source(state.request_text,
                                          state.available_data_sources) IN
       IF selected = None
       THEN Ran("analyze_data_sources", fail(state, "Data source analysis failed"))
       ELSE Ran("analyze_data_sources", [state EXCEPT !.selected_data_source = selected])
    /\ obs' = Executed("analyze_data_sources")
    /\ UNCHANGED <<result, runs, ai_visualizations, user_dashboard_settings, binder, legacy>>

\* _generate_query_node
\* _build_ai_context subscripts selected_data_source and raises on None;
\* response.get raises when the response is a true value without .get
GenerateQueryFrom(responses) ==
    /\ pc = "generate_query"
    /\ IF state.selected_data_source = None
       THEN /\ Ran("generate_query", fail(state, "Query generation failed"))
            /\ obs' = Executed("generate_query")
       ELSE \E response \in responses :
            LET called == [Executed("generate_query") EXCEPT
                               !.bedrock_calls = @ + 1,
                               !.bedrock_response = response]
            IN
            IF response.kind \in {"error", "falsy"}
               \/ (response.kind = "dict" /\ ~TruthySeq(response.sql_query))
            THEN LET fallback_result ==
                         generate_fallback_query(state.request_text,
                                                 state.selected_data_source)
                 IN  /\ Ran("generate_query",
                            [state EXCEPT !.raw_sql_query = fallback_result.sql_query,
                                          !.chart_type = fallback_result.chart_type,
                                          !.chart_title = fallback_result.title])
                     /\ obs' = [called EXCEPT !.fallback_calls = @ + 1]
            ELSE IF response.kind = "nonobject"
            THEN /\ Ran("generate_query", fail(state, "Query generation failed"))
                 /\ obs' = called
            ELSE /\ Ran("generate_query",
                        [state EXCEPT
                            !.raw_sql_query = response.sql_query,
                            !.chart_type = IF response.chart_type = None
                                           THEN "timeseries" ELSE response.chart_type,
                            !.chart_title = IF response.title = None
                                            THEN "AI Generated Chart" ELSE response.title])
                 /\ obs' = called
    /\ UNCHANGED <<result, runs, ai_visualizations, user_dashboard_settings, binder, legacy>>

GenerateQuery == GenerateQueryFrom(BedrockResults)

\* _validate_query_node
ValidateQuery ==
    /\ pc = "validate_query"
    /\ LET cleaned_query == clean_sql_query(state.raw_sql_query)
           validation_result == validate_sql_components(cleaned_query)
       IN  IF validation_result.valid
           THEN /\ Ran("validate_query", [state EXCEPT !.cleaned_sql_query = cleaned_query])
                /\ obs' = [Executed("validate_query") EXCEPT
                               !.accepted = TRUE,
                               !.accepted_sql = cleaned_query]
           ELSE /\ Ran("validate_query", fail(state, "SQL validation failed"))
                /\ obs' = Executed("validate_query")
    /\ UNCHANGED <<result, runs, ai_visualizations, user_dashboard_settings, binder, legacy>>

\* _preview_data_node
PreviewData ==
    /\ pc = "preview_data"
    /\ \E db_error \in BOOLEAN, matching \in PreviewMatches :
       LET preview_query == preview_query_of(state.cleaned_sql_query)
           preview_data == execute_preview_query(preview_query, db_error, matching)
           executed == [Executed("preview_data") EXCEPT
                            !.preview_sql = replace_time_filter(preview_query)]
       IN  IF TruthySeq(preview_data)
           THEN /\ Ran("preview_data", [state EXCEPT !.data_preview = preview_data])
                /\ obs' = [executed EXCEPT !.preview_rows = Len(preview_data)]
           ELSE /\ Ran("preview_data", fail(state, "Data preview returned no results"))
                /\ obs' = executed
    /\ UNCHANGED <<result, runs, ai_visualizations, user_dashboard_settings, binder, legacy>>

\* the rawSql of the panel target, with the preview's substitution applied
panel_raw_sql_substituted(s) == replace_time_filter(s.cleaned_sql_query)

\* "rawSql": state['cleaned_sql_query']
panel_raw_sql(s) == s.cleaned_sql_query

\* _build_dashboard_node; nothing in its try block raises on a state that
\* reached it, so its except clause has no transition
BuildDashboard ==
    /\ pc = "build_dashboard"
    /\ LET panel_config == get_panel_config_for_type(state.chart_type) IN
       Ran("build_dashboard",
           [state EXCEPT !.dashboard_config =
               [ title |-> state.chart_title,
                 type |-> panel_config.type,
                 format |-> panel_config.format,
                 rawSql |-> panel_raw_sql(state),
                 fieldConfig |-> panel_config.fieldConfig,
                 options |-> panel_config.options ]])
    /\ obs' = Executed("build_dashboard")
    /\ UNCHANGED <<result, runs, ai_visualizations, user_dashboard_settings, binder, legacy>>

\* _deploy_grafana_node
DeployGrafana ==
    /\ pc = "deploy_grafana"
    /\ \E outcome \in GrafanaOutcomes :
       /\ IF outcome.kind = "exception"
          THEN Ran("deploy_grafana", fail(state, "Grafana deployment failed"))
          ELSE IF outcome.status_code = 200
          THEN LET uid == IF outcome.uid = "fresh" THEN FreshUid(runs) ELSE outcome.uid IN
               Ran("deploy_grafana",
                   [state EXCEPT !.dashboard_uid = uid,
                                 !.iframe_url = iframe_url_of(uid)])
          ELSE Ran("deploy_grafana", fail(state, "Grafana deployment failed: HTTP 500"))
       /\ obs' = [Executed("deploy_grafana") EXCEPT
                      !.posts = @ + 1,
                      !.post_outcome = IF outcome.kind = "exception" THEN "exception"
                                       ELSE ToString(outcome.status_code)]
    /\ UNCHANGED <<result, runs, ai_visualizations, user_dashboard_settings, binder, legacy>>

\* _store_results_node: _store_ai_visualization, then _add_to_user_dashboard;
\* either may raise (connection or statement error), the first before its
\* commit, the second after the first has committed
StoreResults ==
    /\ pc = "store_results"
    /\ \E db \in {"ok", "store_raises", "bind_raises"} :
       IF db = "store_raises"
       THEN /\ Ran("store_results", fail(state, "Result storage failed"))
            /\ UNCHANGED <<ai_visualizations, user_dashboard_settings>>
       ELSE LET stored == insert_visualization(ai_visualizations, state.user_id,
                              "completed", <<>>, state.dashboard_uid, runs)
                viz_id == Len(stored)
                with_id == [state EXCEPT !.visualization_id = viz_id]
                next_order == next_panel_order(user_dashboard_settings, state.user_id)
                row == binding_row(user_dashboard_settings, state.user_id, viz_id,
                                   <<"AI: ", state.chart_title>>, next_order,
                                   state.iframe_url, state.dashboard_uid)
            IN  /\ ai_visualizations' = stored
                /\ IF db = "bind_raises"
                      \/ unique_violation(user_dashboard_settings, row.user_id, row.panel_id)
                   THEN /\ Ran("store_results", fail(with_id, "Result storage failed"))
                        /\ UNCHANGED user_dashboard_settings
                   ELSE /\ Ran("store_results", [with_id EXCEPT !.status = "completed"])
                        /\ user_dashboard_settings' = user_dashboard_settings \cup {row}
    /\ obs' = Executed("store_results")
    /\ UNCHANGED <<result, runs, binder, legacy>>

\* _handle_error_node; _store_error_state may raise before its commit
HandleError ==
    /\ pc = "handle_error"
    /\ \E db_raises \in BOOLEAN :
       IF state.user_id # 0 /\ db_raises
       THEN /\ Ran("handle_error",
                   [state EXCEPT !.errors = Append(@, "Error handling failed")])
            /\ UNCHANGED ai_visualizations
       ELSE /\ Ran("handle_error", [state EXCEPT !.status = "failed"])
            /\ ai_visualizations' =
                  IF state.user_id # 0
                  THEN insert_visualization(ai_visualizations, state.user_id,
                           "failed", state.errors, None, runs)
                  ELSE ai_visualizations
    /\ obs' = Executed("handle_error")
    /\ UNCHANGED <<result, runs, user_dashboard_settings, binder, legacy>>

\* process_visualization_request returns what ainvoke left in final_state
Return ==
    /\ pc = "END"
    /\ result' =
          IF state.status = "completed"
          THEN [ success |-> TRUE,
                 errors |-> <<>>,
                 visualization_id |-> state.visualization_id,
                 dashboard_uid |-> state.dashboard_uid,
                 sql_query |-> state.cleaned_sql_query ]
          ELSE [NoResult EXCEPT !.errors = state.errors]
    /\ pc' = "returned"
    /\ UNCHANGED <<state, obs, runs, ai_visualizations, user_dashboard_settings, binder, legacy>>

\* ---------------------------------------------- binding operations (racing)
Binders == 1..NumBinders

\* (user id, visualization id) pairs the operations are invoked for
BindKeys == {<<1, 1>>, <<1, 2>>, <<2, 1>>}

\* the parts of `result` / `state` a binding operation reads: the title,
\* the embed URL, the dashboard uid, and grafana_dashboard['success']
Payloads ==
    { [title |-> <<"A">>, iframe_src |-> iframe_url_of("a"),
       dashboard_uid |-> "a", success |-> TRUE],
      [title |-> <<"AI: ", "B">>, iframe_src |-> iframe_url_of("b"),
       dashboard_uid |-> "b", success |-> TRUE] }

\* a result add_ai_visualization_to_dashboard refuses before it connects
BadPayload ==
    [title |-> <<"A">>, iframe_src |-> iframe_url_of("a"),
     dashboard_uid |-> "", success |-> TRUE]

IdleBinder ==
    [ op |-> None, pc |-> "idle", user_id |-> 0, viz_id |-> NoViz,
      payload |-> BadPayload, next_order |-> 0, outcome |-> None ]

\* title.startswith('AI: ') keeps the title, else f"AI: {title}"
legacy_panel_name(title) ==
    IF title # <<>> /\ Head(title) = "AI: " THEN title ELSE <<"AI: ">> \o title

\* f"AI: {state['chart_title']}"
langgraph_panel_name(title) == <<"AI: ">> \o title

\* INSERT ... ON CONFLICT (user_id, panel_id) DO UPDATE SET panel_name,
\* iframe_src, dashboard_uid = EXCLUDED...
upsert_binding(rows, row) ==
    IF unique_violation(rows, row.user_id, row.panel_id)
    THEN { IF r.user_id = row.user_id /\ r.panel_id = row.panel_id
           THEN [r EXCEPT !.panel_name = row.panel_name,
                          !.iframe_src = row.iframe_src,
                          !.dashboard_uid = row.dashboard_uid]
           ELSE r : r \in rows }
    ELSE rows \cup {row}

BinderFrame == UNCHANGED <<pc, state, obs, result, runs, ai_visualizations, legacy>>

\* add_ai_visualization_to_dashboard(user_id, result) is called: the checks
\* on result, then get_db_connection
CallLegacy(b, key, payload) ==
    /\ binder[b].pc = "idle"
    /\ \A c \in Binders : c < b => binder[c].pc # "idle"
    /\ binder' = [binder EXCEPT ![b] =
          [ IdleBinder EXCEPT
              !.op = "legacy", !.user_id = key[1], !.viz_id = key[2],
              !.payload = payload,
              !.pc = IF ~payload.success \/ payload.iframe_src = <<>>
                        \/ ~TruthyStr(payload.dashboard_uid)
                     THEN "done" ELSE "check",
              !.outcome = IF ~payload.success \/ payload.iframe_src = <<>>
                             \/ ~TruthyStr(payload.dashboard_uid)
                          THEN "refused" ELSE None ]]
    /\ UNCHANGED user_dashboard_settings
    /\ BinderFrame

\* add_ai_visualization_to_dashboard: SELECT panel_id, panel_name ... WHERE
\* user_id = %s AND ai_visualization_id = %s; return if a row exists
LegacyCheck(b) ==
    /\ binder[b].op = "legacy" /\ binder[b].pc = "check"
    /\ LET existing == \E r \in user_dashboard_settings :
                           /\ r.user_id = binder[b].user_id
                           /\ r.ai_visualization_id = binder[b].viz_id
       IN  binder' = [binder EXCEPT
                         ![b].pc = IF existing THEN "done" ELSE "order",
                         ![b].outcome = IF existing THEN "exists" ELSE None]
    /\ UNCHANGED user_dashboard_settings
    /\ BinderFrame

\* _add_to_user_dashboard(state, viz_id) is called and connects
CallLangGraph(b, key, payload) ==
    /\ binder[b].pc = "idle"
    /\ \A c \in Binders : c < b => binder[c].pc # "idle"
    /\ binder' = [binder EXCEPT ![b] =
          [ IdleBinder EXCEPT
              !.op = "langgraph", !.user_id = key[1], !.viz_id = key[2],
              !.payload = payload, !.pc = "order" ]]
    /\ UNCHANGED user_dashboard_settings
    /\ BinderFrame

\* both operations: SELECT COALESCE(MAX(panel_order), 0) + 1
SelectNextOrder(b) ==
    /\ binder[b].pc = "order"
    /\ binder' = [binder EXCEPT
          ![b].next_order = next_panel_order(user_dashboard_settings, binder[b].user_id),
          ![b].pc = "insert"]
    /\ UNCHANGED user_dashboard_settings
    /\ BinderFrame

\* add_ai_visualization_to_dashboard: the INSERT ... ON CONFLICT DO UPDATE
\* and its commit
LegacyInsert(b) ==
    /\ binder[b].op = "legacy" /\ binder[b].pc = "insert"
    /\ LET me == binder[b]
           row == binding_row(user_dashboard_settings, me.user_id, me.viz_id,
                              legacy_panel_name(me.payload.title), me.next_order,
                              me.payload.iframe_src, me.payload.dashboard_uid)
       IN  /\ user_dashboard_settings' = upsert_binding(user_dashboard_settings, row)
           /\ binder' = [binder EXCEPT
                 ![b].pc = "done",
                 ![b].outcome =
                     IF unique_violation(user_dashboard_settings, row.user_id, row.panel_id)
                     THEN "updated" ELSE "inserted"]
    /\ BinderFrame

\* _add_to_user_dashboard: the plain INSERT and its commit; the unique
\* constraint makes it raise, and the transaction is not committed
LangGraphInsert(b) ==
    /\ binder[b].op = "langgraph" /\ binder[b].pc = "insert"
    /\ LET me == binder[b]
           row == binding_row(user_dashboard_settings, me.user_id, me.viz_id,
                              langgraph_panel_name(me.payload.title), me.next_order,
                              me.payload.iframe_src, me.payload.dashboard_uid)
       IN  IF unique_violation(user_dashboard_settings, row.user_id, row.panel_id)
           THEN /\ binder' = [binder EXCEPT ![b].pc = "done", ![b].outcome = "raised"]
                /\ UNCHANGED user_dashboard_settings
           ELSE /\ binder' = [binder EXCEPT ![b].pc = "done", ![b].outcome = "inserted"]
                /\ user_dashboard_settings' = user_dashboard_settings \cup {row}
    /\ BinderFrame

\* a statement of either operation fails (connection lost, statement error):
\* nothing is committed
StatementRaises(b) ==
    /\ binder[b].pc \in {"check", "order", "insert"}
    /\ binder' = [binder EXCEPT ![b].pc = "done", ![b].outcome = "raised"]
    /\ UNCHANGED user_dashboard_settings
    /\ BinderFrame

\* ------------------------------ legacy processor (ai_visualization_core.py)
lq_overview == <<"SELECT", " ", "timestamp", " ", "AS", " ", "time", ",", " ", "hb_busavg", " ", "AS", " ", "\"Bus Average Price\"", " ", "FROM", " ", "ercot_settlement_prices", " ", "WHERE", " ", "$__timeFilter(timestamp)", " ", "ORDER", " ", "BY", " ", "timestamp">>
lq_limit == <<"SELECT", " ", "timestamp", " ", "AS", " ", "time", ",", " ", "hb_busavg", " ", "AS", " ", "\"Bus Average Price\"", " ", "FROM", " ", "ercot_settlement_prices", " ", "WHERE", " ", "$__timeFilter(timestamp)", " ", "ORDER", " ", "BY", " ", "timestamp", " ", "LIMIT", " ", "1000">>

\* what analyze_user_request returns: the default of _fallback_analysis, or
\* the object the LLM answered with, its sql_query passed through
\* _clean_ai_sql (lq_limit is left as it is) or absent
LegacyAnalyses ==
    { [title |-> "ERCOT Data Overview", sql_query |-> lq_overview],
      [title |-> "LLM Chart", sql_query |-> lq_limit],
      [title |-> "LLM Chart", sql_query |-> <<>>] }

NoGrafanaResult == [success |-> FALSE, dashboard_uid |-> None]

IdleLegacy ==
    [ pc |-> "idle", user_id |-> 0,
      analysis |-> [title |-> None, sql_query |-> <<>>],
      viz_id |-> NoViz,
      data_preview |-> NoneSeq,
      grafana_result |-> NoGrafanaResult,
      posts |-> 0,               \* dashboard-creation POSTs issued
      success |-> FALSE,         \* result['success']
      added |-> None ]           \* how add_ai_visualization_to_dashboard ended

\* what GrafanaAPI answers in _create_grafana_dashboard: test_connection
\* fails, or the POST of create_dashboard_from_analysis ends as in GrafanaOutcomes
LegacyGrafanaOutcomes ==
    { [kind |-> "unreachable", status_code |-> 0, uid |-> None] } \cup GrafanaOutcomes

\* f"ai_dashboard_{grafana_result['dashboard_uid']}"
legacy_panel_id_of(dashboard_uid) == <<"ai_dashboard_", dashboard_uid>>

\* the row _store_grafana_dashboard inserts
legacy_dashboard_row(rows, user_id, dashboard_uid, title, next_order) ==
    [ id |-> Cardinality(rows) + 1,
      user_id |-> user_id,
      panel_id |-> legacy_panel_id_of(dashboard_uid),
      panel_name |-> <<"AI: ", title>>,
      panel_order |-> next_order,
      iframe_src |-> NoneSeq,
      ai_visualization_id |-> NoViz,
      dashboard_uid |-> None ]

\* UPDATE ai_visualizations SET status = %s ... WHERE id = %s
update_visualization_status(rows, viz_id, status) ==
    [rows EXCEPT ![viz_id].status = status]

LegacyFrame == UNCHANGED <<pc, state, obs, result, binder>>

\* process_user_request is called; Step 1: analyze_user_request
LegacyRequest(user_id, analysis) ==
    /\ legacy.pc \in {"idle", "returned", "responded"}
    /\ runs < MaxRuns
    /\ runs' = runs + 1
    /\ legacy' = [IdleLegacy EXCEPT !.pc = "store_analysis",
                                    !.user_id = user_id,
                                    !.analysis = analysis]
    /\ UNCHANGED <<ai_visualizations, user_dashboard_settings>>
    /\ LegacyFrame

\* Step 2: _store_analysis; it re-raises, and process_user_request returns
\* {'success': False, 'error': ...}
LegacyStoreAnalysis ==
    /\ legacy.pc = "store_analysis"
    /\ \E db_raises \in BOOLEAN :
       IF db_raises
       THEN /\ legacy' = [legacy EXCEPT !.pc = "returned"]
            /\ UNCHANGED ai_visualizations
       ELSE LET stored == insert_visualization(ai_visualizations, legacy.user_id,
                              "processing", <<>>, None, runs)
            IN  /\ ai_visualizations' = stored
                /\ legacy' = [legacy EXCEPT !.viz_id = Len(stored), !.pc = "preview"]
    /\ UNCHANGED <<runs, user_dashboard_settings>>
    /\ LegacyFrame

\* Step 3: _get_data_preview
LegacyGetDataPreview ==
    /\ legacy.pc = "preview"
    /\ \E db_error \in BOOLEAN, matching \in PreviewMatches :
       legacy' = [legacy EXCEPT
                     !.data_preview = get_data_preview(legacy.analysis.sql_query,
                                                       db_error, matching),
                     !.pc = "grafana"]
    /\ UNCHANGED <<runs, ai_visualizations, user_dashboard_settings>>
    /\ LegacyFrame

\* Step 4: _create_grafana_dashboard: test_connection, then
\* create_dashboard_from_analysis (no POST for an empty query), then
\* _store_grafana_dashboard, whose own failure is only logged
LegacyCreateGrafanaDashboard ==
    /\ legacy.pc = "grafana"
    /\ \E outcome \in LegacyGrafanaOutcomes, db_raises \in BOOLEAN :
       IF outcome.kind = "unreachable" \/ legacy.analysis.sql_query = <<>>
       THEN /\ legacy' = [legacy EXCEPT !.grafana_result = NoGrafanaResult,
                                        !.pc = "update"]
            /\ UNCHANGED user_dashboard_settings
       ELSE IF outcome.kind = "exception" \/ outcome.status_code # 200
       THEN /\ legacy' = [legacy EXCEPT !.grafana_result = NoGrafanaResult,
                                        !.posts = @ + 1,
                                        !.pc = "update"]
            /\ UNCHANGED user_dashboard_settings
       ELSE LET uid == IF outcome.uid = "fresh" THEN FreshUid(runs) ELSE outcome.uid
                next_order == next_panel_order(user_dashboard_settings, legacy.user_id)
                row == legacy_dashboard_row(user_dashboard_settings, legacy.user_id,
                                            uid, legacy.analysis.title, next_order)
            IN  /\ legacy' = [legacy EXCEPT
                                 !.grafana_result = [success |-> TRUE, dashboard_uid |-> uid],
                                 !.posts = @ + 1,
                                 !.pc = "update"]
                /\ user_dashboard_settings' =
                      IF db_raises \/ unique_violation(user_dashboard_settings,
                                                       row.user_id, row.panel_id)
                      THEN user_dashboard_settings
                      ELSE user_dashboard_settings \cup {row}
    /\ UNCHANGED <<runs, ai_visualizations>>
    /\ LegacyFrame

\* Step 5: _update_visualization_status, whose own failure is only logged,
\* and the return
LegacyFinish ==
    /\ legacy.pc = "update"
    /\ \E db_raises \in BOOLEAN :
       LET status == IF legacy.grafana_result.success THEN "completed" ELSE "failed" IN
       ai_visualizations' =
           IF db_raises THEN ai_visualizations
           ELSE update_visualization_status(ai_visualizations, legacy.viz_id, status)
    /\ legacy' = [legacy EXCEPT !.success = legacy.grafana_result.success,
                                !.pc = "returned"]
    /\ UNCHANGED <<runs, user_dashboard_settings>>
    /\ LegacyFrame

\* create_ai_visualization_enhanced after process_user_request returned:
\* HTTP 400 for a result without success; else check_for_existing_ai_panel
\* (None when its statement fails), then add_ai_visualization_to_dashboard,
\* which returns early on a false dashboard_uid or an existing row and only
\* logs its own failure
LegacyAddToDashboard ==
    /\ legacy.pc = "returned"
    /\ \E check_raises \in BOOLEAN, db_raises \in BOOLEAN :
       LET uid == legacy.grafana_result.dashboard_uid
           existing == \E r \in user_dashboard_settings :
                           /\ r.user_id = legacy.user_id
                           /\ r.ai_visualization_id = legacy.viz_id
           next_order == next_panel_order(user_dashboard_settings, legacy.user_id)
           row == binding_row(user_dashboard_settings, legacy.user_id, legacy.viz_id,
                              legacy_panel_name(<<legacy.analysis.title>>), next_order,
                              iframe_url_of(uid), uid)
           ends(how) == legacy' = [legacy EXCEPT !.pc = "responded", !.added = how]
       IN  IF ~legacy.success
           THEN ends("http_400") /\ UNCHANGED user_dashboard_settings
           ELSE IF ~check_raises /\ existing
           THEN ends("exists") /\ UNCHANGED user_dashboard_settings
           ELSE IF ~TruthyStr(uid)
           THEN ends("refused") /\ UNCHANGED user_dashboard_settings
           ELSE IF db_raises
           THEN ends("raised") /\ UNCHANGED user_dashboard_settings
           ELSE IF existing
           THEN ends("exists") /\ UNCHANGED user_dashboard_settings
           ELSE /\ ends("inserted")
                /\ user_dashboard_settings' = upsert_binding(user_dashboard_settings, row)
    /\ UNCHANGED <<runs, ai_visualizations>>
    /\ LegacyFrame

\* ------------------------------------------------------------ specifications
Init ==
    /\ pc = "idle"
    /\ state = initial_state(1, <<>>)
    /\ obs = NoObs
    /\ result = NoResult
    /\ runs = 0
    /\ ai_visualizations = <<>>
    /\ user_dashboard_settings = {}
    /\ binder = [b \in Binders |-> IdleBinder]
    /\ legacy = IdleLegacy

\* pipeline runs, one after another
Next ==
    \/ \E user_id \in Users, request_text \in RequestTexts : Start(user_id, request_text)
    \/ ParseRequest
    \/ DetectVisualizationType
    \/ AnalyzeDataSources
    \/ GenerateQuery
    \/ ValidateQuery
    \/ PreviewData
    \/ BuildDashboard
    \/ DeployGrafana
    \/ StoreResults
    \/ HandleError
    \/ Return

Spec == Init /\ [][Next]_vars

\* invocations of the binding operations, interleaved statement by statement
NextBind ==
    \/ \E b \in Binders, key \in BindKeys, payload \in Payloads \cup {BadPayload} :
           CallLegacy(b, key, payload)
    \/ \E b \in Binders, key \in BindKeys, payload \in Payloads :
           CallLangGraph(b, key, payload)
    \/ \E b \in Binders : LegacyCheck(b)
    \/ \E b \in Binders : SelectNextOrder(b)
    \/ \E b \in Binders : LegacyInsert(b)
    \/ \E b \in Binders : LangGraphInsert(b)
    \/ \E b \in Binders : StatementRaises(b)

SpecBind == Init /\ [][NextBind]_vars

\* one run from the request text to the validation gate
NextText ==
    \/ \E user_id \in Users, request_text \in RuleTexts : Start(user_id, request_text)
    \/ ParseRequest
    \/ DetectVisualizationType
    \/ AnalyzeDataSources
    \/ GenerateQuery
    \/ ValidateQuery

SpecText == Init /\ [][NextText]_vars

\* one run whose LLM answer carries each chart-type tag, up to the built panel
NextChart ==
    \/ \E user_id \in Users, request_text \in RequestTexts : Start(user_id, request_text)
    \/ ParseRequest
    \/ DetectVisualizationType
    \/ AnalyzeDataSources
    \/ GenerateQueryFrom(ChartResponses)
    \/ ValidateQuery
    \/ PreviewData
    \/ BuildDashboard

SpecChart == Init /\ [][NextChart]_vars

\* requests to the legacy processor, one after another
NextLegacy ==
    \/ \E user_id \in Users, analysis \in LegacyAnalyses : LegacyRequest(user_id, analysis)
    \/ LegacyStoreAnalysis
    \/ LegacyGetDataPreview
    \/ LegacyCreateGrafanaDashboard
    \/ LegacyFinish
    \/ LegacyAddToDashboard

SpecLegacy == Init /\ [][NextLegacy]_vars

\* ==================================================================== claims
StageNodes ==
    { "parse_request", "detect_visualization_type", "analyze_data_sources",
      "generate_query", "validate_query", "preview_data", "build_dashboard",
      "deploy_grafana" }

\* C1: in every run, the dashboard-creation POST of deploy_grafana is issued
\* only after validate_query accepted the cleaned query and preview_data
\* returned at least one row in that same run.
C1_DeployOnlyAfterGates ==
    obs.posts > 0 => obs.accepted /\ obs.preview_rows >= 1

\* a run has issued its POST
C1_Witness ==
    obs.posts = 1 /\ obs.accepted /\ obs.preview_rows >= 1 /\ pc = "store_results"

\* C2: after any sequence of binding operations, one after another or
\* interleaved, user_dashboard_settings holds at most one row for a given
\* (user id, visualization id) pair.
C2_OneBindingPerVisualization ==
    \A r1, r2 \in user_dashboard_settings :
        (r1.user_id = r2.user_id /\ r1.ai_visualization_id = r2.ai_visualization_id)
            => r1 = r2

\* two invocations for one pair both got past the existence check and both
\* ran their INSERT
C2_Witness ==
    \E b1, b2 \in Binders :
        /\ b1 # b2
        /\ binder[b1].user_id = binder[b2].user_id
        /\ binder[b1].viz_id = binder[b2].viz_id
        /\ binder[b1].outcome = "inserted"
        /\ binder[b2].pc = "done"
        /\ binder[b2].next_order > 0
        /\ binder[b2].outcome \in {"updated", "raised"}
        /\ \E r \in user_dashboard_settings :
               r.user_id = binder[b1].user_id /\ r.ai_visualization_id = binder[b1].viz_id

\* C3: when invocations of add_ai_visualization_to_dashboard for the same
\* (user id, visualization id) run in sequence or interleave, at most one of
\* them inserts and the binding row written first is never changed by a
\* later invocation.
C3_FirstBindingKept ==
    [][ (\A b \in Binders : binder[b].op # "langgraph") =>
           /\ \A r \in user_dashboard_settings : r \in user_dashboard_settings'
           /\ \A b1, b2 \in Binders :
                  ( /\ b1 # b2
                    /\ binder'[b1].user_id = binder'[b2].user_id
                    /\ binder'[b1].viz_id = binder'[b2].viz_id
                    /\ binder'[b1].outcome = "inserted" )
                  => binder'[b2].outcome # "inserted" ]_vars

\* C4: in every reachable state of a run, status == completed implies that
\* cleaned_sql_query, data_preview and dashboard_uid are present and non-empty.
C4_CompletedHasArtifacts ==
    state.status = "completed" =>
        /\ TruthySeq(state.cleaned_sql_query)
        /\ TruthySeq(state.data_preview)
        /\ TruthyStr(state.dashboard_uid)

\* a run has completed
C4_Witness ==
    state.status = "completed" /\ pc = "END"

\* C5: in every reachable state of a run, status == failed implies that the
\* error list is non-empty and that no dashboard id was issued.
C5_FailedHasErrorsNoDashboard ==
    state.status = "failed" =>
        /\ state.errors # <<>>
        /\ ~TruthyStr(state.dashboard_uid)

\* C6: whenever a stage node sets status to failed, the next node executed is
\* the error handler, and no processing stage runs once status is failed.
C6_FailFast ==
    [][ /\ (pc \in StageNodes /\ state.status # "failed" /\ state'.status = "failed")
            => pc' = "handle_error"
        /\ state.status = "failed" => pc \notin StageNodes ]_vars

\* len(request_text.strip()) < 3, the empty text included
TooShort(request_text) == Len(strip(request_text)) < 3

\* C7: a request whose text is empty or shorter than 3 characters after
\* trimming is rejected before any stage runs: no stage after parse_request
\* executes for it.
C7_ShortRequestRunsNoStage ==
    (pc # "idle" /\ TooShort(state.request_text)) =>
        \A i \in 1..Len(obs.trace) :
            obs.trace[i] \notin (StageNodes \ {"parse_request"})

\* the INSERT of _store_error_state itself failed in this run
HandlerWriteFailed ==
    \E i \in 1..Len(state.errors) : state.errors[i] = "Error handling failed"

\* C8: every run that ends with status failed, a store write error in
\* store_results included, has captured the failure in the error list and has
\* written an ai_visualizations row with status 'failed' (read with the one
\* exception no code could avoid: the error handler's own INSERT failed).
C8_FailedRunIsRecorded ==
    (pc = "returned" /\ state.status = "failed" /\ ~HandlerWriteFailed) =>
        /\ state.errors # <<>>
        /\ \E i \in 1..Len(ai_visualizations) :
               /\ ai_visualizations[i].run = runs
               /\ ai_visualizations[i].status = "failed"

\* C9: process_visualization_request always returns a result with a success
\* flag, and when success is false the result carries a non-empty error list.
C9_StructuredResult ==
    pc = "returned" =>
        /\ result.success \in BOOLEAN
        /\ ~result.success => result.errors # <<>>

\* the response of _call_bedrock_ai is no usable result
Unusable(response) ==
    \/ response.kind \in {"error", "falsy", "nonobject"}
    \/ response.kind = "dict" /\ ~TruthySeq(response.sql_query)

\* C10: in generate_query the LLM strategy is called first and at most once;
\* whenever it delivers no usable result the rule-based strategy is invoked
\* exactly once and the run continues to validation; otherwise the rule-based
\* strategy is not invoked.
C10_FallbackOnceOnLlmFailure ==
    /\ obs.bedrock_calls <= 1
    /\ obs.fallback_calls <= obs.bedrock_calls
    /\ (obs.bedrock_calls = 1 /\ Unusable(obs.bedrock_response)) =>
           /\ obs.fallback_calls = 1
           /\ pc = "validate_query"
              \/ \E i \in 1..Len(obs.trace) : obs.trace[i] = "validate_query"
    /\ (obs.bedrock_calls = 1 /\ ~Unusable(obs.bedrock_response)) =>
           obs.fallback_calls = 0

\* C11: for every request text and each of the two catalog data sources the
\* query of the rule-based strategy is non-empty, is left unchanged by
\* _clean_sql_query and is accepted by _validate_sql_components; a run whose
\* query came from the fallback does not fail at validate_query.
C11_FallbackQueryPassesGate ==
    /\ \A i \in 1..Len(data_sources) :
          LET q == generate_fallback_query(state.request_text, data_sources[i]).sql_query IN
          /\ q # <<>>
          /\ clean_sql_query(q) = q
          /\ validate_sql_components(clean_sql_query(q)).valid
    /\ (obs.fallback_calls = 1 /\ InTrace("validate_query")) =>
          /\ obs.accepted
          /\ state.status # "failed"

\* the fallback produced the regulation query for "frequency" and the gate
\* accepted it
C11_Witness ==
    /\ obs.fallback_calls = 1
    /\ state.raw_sql_query = fb_regulation.sql_query
    /\ obs.accepted
    /\ obs.accepted_sql = fb_regulation.sql_query

\* C12: _clean_sql_query is idempotent: cleaning the cleaned query gives the
\* cleaned query, for every raw query that reaches validate_query.
C12_CleanIdempotent ==
    pc = "validate_query" =>
        clean_sql_query(clean_sql_query(state.raw_sql_query))
            = clean_sql_query(state.raw_sql_query)

C14_MutatingQueryRejected ==
    LET mutating == {"INSERT", "UPDATE", "DELETE", "DROP", "ALTER", "TRUNCATE"}
        raw == state.raw_sql_query
    IN  (TruthySeq(raw) /\ \E i \in 1..Len(raw) : raw[i] \in mutating) =>
            /\ ~obs.accepted
            /\ obs.preview_sql = NoneSeq
            /\ obs.posts = 0
            /\ pc = "returned" => state.status = "failed"

\* C15: the rawSql of the panel built by build_dashboard is the sanitized
\* query the gate accepted, placeholder included; the statement the preview
\* executed has the placeholder replaced, and cleaned_sql_query is still the
\* accepted query afterwards.
C15_ProvisionedQueryIsSanitizedQuery ==
    /\ state.dashboard_config.rawSql # NoneSeq =>
          /\ obs.accepted
          /\ state.dashboard_config.rawSql = obs.accepted_sql
          /\ Contains(<<TimeFilter>>, state.dashboard_config.rawSql)
    /\ obs.preview_sql # NoneSeq =>
          /\ ~Contains(<<TimeFilter>>, obs.preview_sql)
          /\ Contains(PreviewInterval, obs.preview_sql)
          /\ state.cleaned_sql_query = obs.accepted_sql
          /\ Contains(<<TimeFilter>>, state.cleaned_sql_query)

\* the preview ran on the substituted copy and the panel was built from the
\* sanitized query
C15_Witness ==
    /\ pc = "deploy_grafana"
    /\ obs.preview_sql = replace_time_filter(preview_query_of(obs.accepted_sql))
    /\ obs.preview_sql # preview_query_of(obs.accepted_sql)
    /\ state.dashboard_config.rawSql = obs.accepted_sql

\* C16: a data preview never holds more than 10 rows, in the workflow
\* (_preview_data_node) and in the legacy processor (_get_data_preview),
\* whatever LIMIT the generated query carries.
C16_PreviewAtMostTenRows ==
    /\ state.data_preview # NoneSeq => Len(state.data_preview) <= 10
    /\ legacy.data_preview # NoneSeq => Len(legacy.data_preview) <= 10

\* C17: in the legacy processor, a preview that errors or returns zero rows
\* ends the request as a failure: no dashboard-creation POST, no binding row,
\* and a visualization record that is not marked completed.
C17_LegacyPreviewFailureEndsRequest ==
    (legacy.pc = "returned" /\ legacy.data_preview = <<>>) =>
        /\ ~legacy.success
        /\ legacy.posts = 0
        /\ ~\E r \in user_dashboard_settings :
               /\ r.user_id = legacy.user_id
               /\ r.panel_id = legacy_panel_id_of(legacy.grafana_result.dashboard_uid)
        /\ ai_visualizations[legacy.viz_id].status # "completed"

\* C18: a run issues at most one dashboard-creation POST and executes no node
\* twice; after a failure status or an exception of the POST the run is
\* failed and only the error handler runs.
C18_OneProvisioningPost ==
    /\ obs.posts <= 1
    /\ \A i, j \in 1..Len(obs.trace) : obs.trace[i] = obs.trace[j] => i = j
    /\ obs.post_outcome \in {"exception", "500"} =>
          /\ state.status = "failed"
          /\ pc \in {"handle_error", "END", "returned"}
          /\ ~InTrace("store_results")

\* a run whose POST was answered with 500 has returned
C18_Witness ==
    /\ pc = "returned"
    /\ obs.post_outcome = "500"
    /\ obs.posts = 1
    /\ obs.trace[Len(obs.trace)] = "handle_error"

\* the ai_visualizations rows written by the current run
RowsOfRun == {i \in 1..Len(ai_visualizations) : ai_visualizations[i].run = runs}

C20_KeywordPriority ==
    LET request_lower == lower(state.request_text) IN
    InTrace("analyze_data_sources") =>
        /\ ( /\ AnyIn(price_keywords \cup {kw_houston}, request_lower)
             /\ ~AnyIn(capacity_keywords, request_lower) )
               => state.selected_data_source = SettlementPrices
        /\ AnyIn(capacity_keywords, request_lower)
               => state.selected_data_source = CapacityMonitor

\* the user_dashboard_settings rows of `user_id` that reference dashboard
\* `uid`, by the dashboard_uid column or by the panel id ai_dashboard_<uid>
BindingsOf(user_id, uid) ==
    {r \in user_dashboard_settings :
        /\ r.user_id = user_id
        /\ r.dashboard_uid = uid \/ r.panel_id = legacy_panel_id_of(uid)}

\* C21: a request that completed successfully has created exactly one
\* user_dashboard_settings row of the caller that references the provisioned
\* dashboard: a workflow run that returned success, and a legacy request
\* (process_user_request, then add_ai_visualization_to_dashboard) that
\* returned success.
C21_OneBindingPerCompletedRequest ==
    /\ (pc = "returned" /\ result.success) =>
           Cardinality(BindingsOf(state.user_id, state.dashboard_uid)) = 1
    /\ (legacy.pc = "responded" /\ legacy.success) =>
           Cardinality(BindingsOf(legacy.user_id, legacy.grafana_result.dashboard_uid)) = 1

\* C22: the query _clean_sql_query returns for the raw query of a run has no
\* code-fence marker and does not end with the statement terminator ';'.
C22_CleanStripsFenceAndTerminator ==
    TruthySeq(state.raw_sql_query) =>
        LET cleaned == clean_sql_query(state.raw_sql_query) IN
        /\ ~Contains(<<CodeFence>>, cleaned)
        /\ cleaned # <<>> => cleaned[Len(cleaned)] # ";"

\* the visual type the lookup table gives a chart-type tag
ExpectedPanelType(tag) ==
    CASE tag \in {"line", "timeseries", "area"} -> "timeseries"
      [] tag = "bar" -> "barchart"
      [] tag \in {"stat", "gauge", "table"} -> tag
      [] OTHER -> "timeseries"

\* C23: _get_panel_config_for_type is total on the chart-type tag: every tag
\* gets a type, a fieldConfig block and an options block; line and timeseries
\* give timeseries, bar barchart, stat stat, gauge gauge, table table, area
\* timeseries with a filled field configuration, every other tag timeseries;
\* and the panel build_dashboard builds has the entry of the run's chart_type.
C23_PanelConfigLookup ==
    /\ \A tag \in ChartTags \cup {None} :
          LET config == get_panel_config_for_type(tag) IN
          /\ DOMAIN config = {"type", "format", "fieldConfig", "options"}
          /\ config.type = ExpectedPanelType(tag)
          /\ config.fieldConfig.helper # None /\ config.options.helper # None
          /\ tag = "area" => config.fieldConfig.fillOpacity > 0
          /\ tag \notin {"bar", "stat", "gauge", "table", "area"} =>
                 config.fieldConfig.fillOpacity = 0
    /\ InTrace("build_dashboard") =>
          /\ state.dashboard_config.type = ExpectedPanelType(state.chart_type)
          /\ state.dashboard_config.fieldConfig.helper # None
          /\ state.dashboard_config.options.helper # None
          /\ state.chart_type = "area" =>
                 state.dashboard_config.fieldConfig.fillOpacity > 0

\* a run whose chart type is area has built a filled timeseries panel
C23_Witness ==
    /\ pc = "deploy_grafana"
    /\ state.chart_type = "area"
    /\ state.dashboard_config.type = "timeseries"
    /\ state.dashboard_config.fieldConfig = get_area_field_config

\* a is a prefix of b
IsPrefix(a, b) == Len(a) <= Len(b) /\ SubSeq(b, 1, Len(a)) = a

\* the errors the stages appended: the list without the handler's own error
StageErrors(errors) ==
    IF errors # <<>> /\ errors[Len(errors)] = "Error handling failed"
    THEN SubSeq(errors, 1, Len(errors) - 1)
    ELSE errors

\* the node an error message comes from: each node appends its own message
StageOfError(msg) ==
    CASE msg = "Request text is too short or empty" -> "parse_request"
      [] msg = "Data source analysis failed" -> "analyze_data_sources"
      [] msg = "Query generation failed" -> "generate_query"
      [] msg = "SQL validation failed" -> "validate_query"
      [] msg = "Data preview returned no results" -> "preview_data"
      [] msg \in {"Grafana deployment failed",
                  "Grafana deployment failed: HTTP 500"} -> "deploy_grafana"
      [] OTHER -> None

\* the last stage an error list reports: the node of its last stage error;
\* only deploy_grafana leads to the error handler without an error
StageOfErrors(errors) ==
    LET staged == StageErrors(errors) IN
    IF staged = <<>> THEN "deploy_grafana" ELSE StageOfError(staged[Len(staged)])

Atoms(s) == {s[i] : i \in 1..Len(s)}

\* C25: when _clean_sql_query rewrites a relative-time filter
\* (timestamp >= NOW() - INTERVAL '...') of the raw query of a run, the cleaned
\* query has the placeholder and still has every other atom of the raw query:
\* the other predicates of the WHERE clause and a trailing LIMIT clause.
C25_RewriteKeepsOtherClauses ==
    LET raw == state.raw_sql_query
        cleaned == clean_sql_query(raw)
    IN  (TruthySeq(raw) /\ Contains(PreviewInterval, raw)) =>
            /\ Contains(<<TimeFilter>>, cleaned)
            /\ ~Contains(NowInterval, cleaned)
            /\ (Atoms(raw) \ (Atoms(PreviewInterval) \cup WhitespaceChars))
                   \subseteq Atoms(cleaned)

\* C26: no step removes a row of ai_visualizations; store_results and
\* handle_error never both execute in one run; and a run that has returned
\* has created exactly one row, 'completed' written by store_results or
\* 'failed' written by handle_error.
C26_OneRowPerRun ==
    [][ /\ IsPrefix(ai_visualizations, ai_visualizations')
        /\ ~(InTrace("store_results") /\ InTrace("handle_error"))'
        /\ (pc' = "returned") =>
              /\ Cardinality(RowsOfRun') = 1
              /\ \A i \in RowsOfRun' :
                     \/ /\ ai_visualizations'[i].status = "completed"
                        /\ InTrace("store_results")'
                     \/ /\ ai_visualizations'[i].status = "failed"
                        /\ InTrace("handle_error")' ]_vars

\* C27: when the workflow has reached END, status is completed or failed,
\* never still 'processing', whatever the external calls did.
C27_EndIsCompletedOrFailed ==
    pc \in {"END", "returned"} => state.status \in {"completed", "failed"}

\* C28: the result a run returned agrees with the store: with success false
\* the run has no ai_visualizations row with status 'completed'; with success
\* true the run's 'completed' row and the binding row that references it are
\* both stored.
C28_ResultAgreesWithStore ==
    pc = "returned" =>
        /\ ~result.success =>
               ~\E i \in RowsOfRun : ai_visualizations[i].status = "completed"
        /\ result.success =>
               /\ result.visualization_id \in RowsOfRun
               /\ ai_visualizations[result.visualization_id].status = "completed"
               /\ \E r \in user_dashboard_settings :
                      /\ r.user_id = state.user_id
                      /\ r.ai_visualization_id = result.visualization_id

\* C29: every binding row inserted gets a panel_order one more than the
\* largest panel_order of the user's rows existing at its insertion, and the
\* rows of one user for different visualizations have pairwise distinct
\* panel_order values, however the invocations interleave.
C29_DistinctPanelOrder ==
    [][ /\ \A r \in user_dashboard_settings' \ user_dashboard_settings :
               r.panel_order = next_panel_order(user_dashboard_settings, r.user_id)
        /\ \A r1, r2 \in user_dashboard_settings' :
               ( /\ r1.user_id = r2.user_id
                 /\ r1.ai_visualization_id # r2.ai_visualization_id )
               => r1.panel_order # r2.panel_order ]_vars

====
